---------------------------- MODULE Spec2Model ----------------------------
(***************************************************************************)
(* Model of edgee-cloud/spam-classifier-component:                         *)
(*   src/src/classifier.rs   Counter, ClassifierStats, NaiveBayesClassifier*)
(*   src/src/bin/train.rs    the offline trainer                           *)
(*   src/src/lib.rs          the request handler                           *)
(*                                                                         *)
(* Integers.  TLC's integers are 32-bit, so a u32 is modelled as an        *)
(* unsigned integer of U32_BITS bits and a u64 as one of 2 * U32_BITS      *)
(* bits; every u32 operation is taken modulo 2^U32_BITS, or panics when    *)
(* the build checks overflow (overflow_checks).                            *)
(*                                                                         *)
(* Floats.  An f32 is one of                                               *)
(*   NaN, +inf, -inf                                                       *)
(*   [k |-> "rat", n, d]   the real n/d (d > 0, lowest terms)              *)
(*   [k |-> "exp", n, d]   the positive real 2^(n/d)                       *)
(* The "exp" form carries the values exp() produces, whose range (down to  *)
(* 2^-149) no fixed-point integer holds.  ln and exp are tabulated at a    *)
(* resolution of 2^(1/UnitsPerBit); the f32 limits that the code depends   *)
(* on are kept: exp() overflows to +inf, underflows to 0, and below 2^-126 *)
(* rounds to a multiple of 2^-149.  Rounding in the normal range (2^-24    *)
(* relative) is below the model's resolution and is not modelled.          *)
(***************************************************************************)
EXTENDS Integers, Sequences, FiniteSets, TLC

(***************************************************************************)
(* Bounds                                                                  *)
(***************************************************************************)
U32_BITS == 4

Pow2(n) == 2 ^ n

U32_MAX == Pow2(U32_BITS) - 1

U32 == 0 .. U32_MAX

Max(a, b) == IF a >= b THEN a ELSE b

Abs(a) == IF a >= 0 THEN a ELSE -a

RECURSIVE Gcd(_, _)
Gcd(a, b) == IF b = 0 THEN a ELSE Gcd(b, a % b)

(***************************************************************************)
(* u32 / u64 arithmetic                                                    *)
(***************************************************************************)
\* Bitwise OR of two non-negative integers.
RECURSIVE BitOr(_, _)
BitOr(a, b) ==
    IF a = 0 THEN b
    ELSE IF b = 0 THEN a
    ELSE 2 * BitOr(a \div 2, b \div 2) + (IF a % 2 = 1 \/ b % 2 = 1 THEN 1 ELSE 0)

\* Bitwise AND of two non-negative integers.
RECURSIVE BitAnd(_, _)
BitAnd(a, b) ==
    IF a = 0 \/ b = 0 THEN 0
    ELSE 2 * BitAnd(a \div 2, b \div 2) + (IF a % 2 = 1 /\ b % 2 = 1 THEN 1 ELSE 0)

\* value << U32_BITS on a u64: bits shifted past the top are lost.
Shl32(v) == (v * Pow2(U32_BITS)) % Pow2(2 * U32_BITS)

\* value >> U32_BITS on a u64.
Shr32(v) == v \div Pow2(U32_BITS)

\* `as u32`: truncation to the low word.
AsU32(v) == v % Pow2(U32_BITS)

\* u32 `+`: the wrapped sum, and whether it overflowed.
WrappingAdd(a, b) == (a + b) % Pow2(U32_BITS)

Overflows(a, b) == a + b > U32_MAX

(***************************************************************************)
(* Counter (classifier.rs:8-29)                                            *)
(***************************************************************************)
Counter == [spam : U32, ham : U32]

MkCounter(s, h) == [spam |-> s, ham |-> h]

\* #[derive(Default)]
CounterDefault == MkCounter(0, 0)

\* Faulty variant: the two words taken from the wrong halves.
from_u64_swapped(value) == MkCounter(AsU32(BitAnd(value, U32_MAX)), AsU32(Shr32(value)))

from_u64(value) ==
    LET spam == AsU32(Shr32(value))
        ham  == AsU32(BitAnd(value, U32_MAX))
    IN  MkCounter(spam, ham)

to_u64(c) ==
    LET spam == c.spam
        ham  == c.ham
    IN  BitOr(Shl32(spam), ham)

(***************************************************************************)
(* f32                                                                     *)
(***************************************************************************)
\* Logarithms are held in whole units of ln(2)/UnitsPerBit: f32::ln(x) is
\* modelled by UnitsPerBit * log2(x) and f32::exp(x) by 2^(x/UnitsPerBit).
\* The code only adds and subtracts logarithms and takes exp of the result,
\* so the common factor cancels; the powers of two that bound an f32 fall
\* on whole units.
UnitsPerBit == 14

\* Resolution of ExpTab: a value near 1 is read in units of 1/ProbScale.
ProbScale == 1000

\* LnTab[n] = round(UnitsPerBit * log2 n), n = 1 .. 128.
LnTab ==
    <<0, 14, 22, 28, 33, 36, 39, 42, 44, 47, 48, 50, 52, 53, 55, 56,
      57, 58, 59, 61, 61, 62, 63, 64, 65, 66, 67, 67, 68, 69, 69, 70,
      71, 71, 72, 72, 73, 73, 74, 75, 75, 75, 76, 76, 77, 77, 78, 78,
      79, 79, 79, 80, 80, 81, 81, 81, 82, 82, 82, 83, 83, 83, 84, 84,
      84, 85, 85, 85, 86, 86, 86, 86, 87, 87, 87, 87, 88, 88, 88, 89,
      89, 89, 89, 89, 90, 90, 90, 90, 91, 91, 91, 91, 92, 92, 92, 92,
      92, 93, 93, 93, 93, 93, 94, 94, 94, 94, 94, 95, 95, 95, 95, 95,
      95, 96, 96, 96, 96, 96, 97, 97, 97, 97, 97, 97, 98, 98, 98, 98>>

\* SoftplusTab[i + 1] = round(UnitsPerBit * log2(1 + 2^(-i / UnitsPerBit)));
\* 0 beyond the table.
SoftplusTab ==
    <<14, 14, 13, 13, 12, 12, 11, 11, 10, 10, 10, 9, 9, 9, 8, 8,
      8, 7, 7, 7, 6, 6, 6, 6, 5, 5, 5, 5, 5, 4, 4, 4,
      4, 4, 3, 3, 3, 3, 3, 3, 3, 2, 2, 2, 2, 2, 2, 2,
      2, 2, 2, 2, 1, 1, 1, 1, 1, 1, 1, 1, 1, 1, 1, 1,
      1, 1, 1, 1, 1, 1, 1, 1, 1, 1, 1>>

\* ExpTab[l + ExpTabOff] = round(ProbScale * 2^(l / UnitsPerBit)),
\* l = 1 - ExpTabOff .. 14.
ExpTab ==
    <<1, 1, 1, 1, 1, 1, 1, 1, 1, 1, 1, 1, 1, 1, 1, 1,
      1, 1, 1, 1, 1, 1, 2, 2, 2, 2, 2, 2, 2, 2, 2, 2,
      3, 3, 3, 3, 3, 3, 3, 4, 4, 4, 4, 4, 5, 5, 5, 5,
      6, 6, 6, 6, 7, 7, 7, 8, 8, 9, 9, 10, 10, 11, 11, 12,
      12, 13, 13, 14, 15, 16, 16, 17, 18, 19, 20, 21, 22, 23, 24, 26,
      27, 28, 30, 31, 33, 35, 36, 38, 40, 42, 44, 46, 49, 51, 54, 57,
      59, 62, 66, 69, 73, 76, 80, 84, 88, 93, 98, 103, 108, 113, 119, 125,
      131, 138, 145, 152, 160, 168, 177, 186, 195, 205, 215, 226, 238, 250, 263, 276,
      290, 305, 320, 336, 354, 371, 390, 410, 431, 453, 476, 500, 525, 552, 580, 610,
      640, 673, 707, 743, 781, 820, 862, 906, 952, 1000, 1051, 1104, 1160, 1219, 1281, 1346,
      1414, 1486, 1561, 1641, 1724, 1811, 1903, 2000>>

ExpTabOff == 154

\* f32 limits, as logarithms:
\*   exp gives +inf from 2^128 (above f32::MAX) on,
\*   0 up to 2^-150 (half the least positive f32, 2^-149),
\*   and below 2^-126, the least normal f32, a multiple k * 2^-149.
OverflowLn == 128 * UnitsPerBit

UnderflowLn == -150 * UnitsPerBit

MinDenormLn == -149 * UnitsPerBit

MinNormalLn == -126 * UnitsPerBit

\* Below 2^-126 the multiple k is tracked up to DenormMax; a larger one is
\* precise beyond the model's resolution.
DenormMax == 64

NaN == [k |-> "nan", n |-> 0, d |-> 1]

PInf == [k |-> "pinf", n |-> 0, d |-> 1]

NInf == [k |-> "ninf", n |-> 0, d |-> 1]

\* n/d with both divided by g > 0, the sign carried by the numerator.
Reduced(n, d, g) ==
    [k |-> "rat", n |-> (IF d < 0 THEN -1 ELSE 1) * (n \div g), d |-> Abs(d) \div g]

\* The real n/d, d /= 0, in lowest terms.
Rat(n, d) == Reduced(n, d, Gcd(Abs(n), Abs(d)))

\* The positive real 2^(l / UnitsPerBit).
ExpVal(l) == [k |-> "exp", n |-> l, d |-> UnitsPerBit]

Zero == Rat(0, 1)

One == Rat(1, 1)

Half == Rat(1, 2)

\* `u as f32`
AsF32(u) == Rat(u, 1)

is_nan(x) == x.k = "nan"

is_infinite(x) == x.k \in {"pinf", "ninf"}

IsFinite(x) == x.k \in {"rat", "exp"}

\* An "exp" value read at the resolution 1/ProbScale.
ToRat(x) ==
    IF x.k # "exp" THEN x
    ELSE IF x.n + ExpTabOff < 1 THEN Zero
    ELSE IF x.n + ExpTabOff > Len(ExpTab) THEN Rat(ExpTab[Len(ExpTab)], ProbScale)
    ELSE Rat(ExpTab[x.n + ExpTabOff], ProbScale)

\* -1, 0 or 1: the sign of a finite or infinite value.
Sign(x) ==
    CASE x.k = "pinf" -> 1
      [] x.k = "ninf" -> -1
      [] x.k = "exp"  -> 1
      [] x.k = "rat"  -> IF x.n > 0 THEN 1 ELSE IF x.n < 0 THEN -1 ELSE 0
      [] OTHER        -> 0

RatNeg(a) == [k |-> "rat", n |-> -a.n, d |-> a.d]

RatAdd(a, b) == Rat(a.n * b.d + b.n * a.d, a.d * b.d)

RatMul(a, b) == Rat(a.n * b.n, a.d * b.d)

\* a / b for rationals: x/0 is an infinity, 0/0 is NaN.
RatDiv(a, b) ==
    IF b.n = 0
    THEN (IF a.n = 0 THEN NaN ELSE IF a.n > 0 THEN PInf ELSE NInf)
    ELSE Rat(a.n * b.d, a.d * b.n)

RatGe(a, b) == a.n * b.d >= b.n * a.d

FNeg(x) ==
    CASE x.k = "nan"  -> NaN
      [] x.k = "pinf" -> NInf
      [] x.k = "ninf" -> PInf
      [] OTHER        -> RatNeg(ToRat(x))

\* 2^(l/UnitsPerBit), +inf from 2^128 on.
ExpOrInf(l) == IF l >= OverflowLn THEN PInf ELSE ExpVal(l)

Softplus(dd) == IF dd + 1 <= Len(SoftplusTab) THEN SoftplusTab[dd + 1] ELSE 0

\* 2^(a/UnitsPerBit) + 2^(b/UnitsPerBit)
ExpSum(a, b) == ExpOrInf(Max(a, b) + Softplus(Abs(a - b)))

FAdd(x, y) ==
    CASE is_nan(x) \/ is_nan(y) -> NaN
      [] x.k = "pinf" -> IF y.k = "ninf" THEN NaN ELSE PInf
      [] x.k = "ninf" -> IF y.k = "pinf" THEN NaN ELSE NInf
      [] is_infinite(y) -> y
      [] x.k = "exp" /\ y.k = "exp" -> ExpSum(x.n, y.n)
      [] x.k = "exp" /\ y = Zero -> x
      [] y.k = "exp" /\ x = Zero -> y
      [] OTHER -> RatAdd(ToRat(x), ToRat(y))

FSub(x, y) == FAdd(x, FNeg(y))

FMul(x, y) ==
    CASE is_nan(x) \/ is_nan(y) -> NaN
      [] is_infinite(x) \/ is_infinite(y) ->
            IF Sign(x) * Sign(y) = 0 THEN NaN
            ELSE IF Sign(x) * Sign(y) > 0 THEN PInf ELSE NInf
      [] OTHER -> RatMul(ToRat(x), ToRat(y))

FDiv(x, y) ==
    CASE is_nan(x) \/ is_nan(y) -> NaN
      [] is_infinite(x) ->
            IF is_infinite(y) THEN NaN
            ELSE IF Sign(x) * (IF Sign(y) < 0 THEN -1 ELSE 1) > 0 THEN PInf ELSE NInf
      [] is_infinite(y) -> Zero
      [] OTHER -> RatDiv(ToRat(x), ToRat(y))

\* f32::ln
FLn(x) ==
    CASE x.k = "nan"  -> NaN
      [] x.k = "pinf" -> PInf
      [] x.k = "ninf" -> NaN
      [] x.k = "exp"  -> Rat(x.n, 1)
      [] OTHER ->
            IF x.n < 0 THEN NaN
            ELSE IF x.n = 0 THEN NInf
            ELSE Rat(LnTab[x.n] - LnTab[x.d], 1)

\* A rational to the nearest whole number.
RatRound(r) == (2 * r.n + r.d) \div (2 * r.d)

\* A finite value to the nearest whole number.
Round(x) == RatRound(ToRat(x))

\* 2^(l/UnitsPerBit) as f32 rounds it: 0 up to 2^-150, a multiple
\* k * 2^-149 below 2^-126 (k the nearest integer), +inf from 2^128 on.
\* The multiple of 2^-149 nearest to 2^(l/UnitsPerBit), as a logarithm.
Denormal(l, k) == IF k < DenormMax THEN ExpVal(LnTab[k] + MinDenormLn) ELSE ExpVal(l)

ExpRound(l) ==
    IF l >= OverflowLn THEN PInf
    ELSE IF l <= UnderflowLn THEN Zero
    ELSE IF l < MinNormalLn
    THEN Denormal(l, Cardinality({j \in 1 .. DenormMax :
                                     LnTab[2 * j - 1] - LnTab[2] <= l - MinDenormLn}))
    ELSE ExpVal(l)

\* f32::exp
FExp(x) ==
    CASE x.k = "nan"  -> NaN
      [] x.k = "pinf" -> PInf
      [] x.k = "ninf" -> Zero
      [] OTHER        -> ExpRound(Round(x))

\* x >= y on f32: false when either is NaN.
FGe(x, y) ==
    CASE is_nan(x) \/ is_nan(y) -> FALSE
      [] x.k = "pinf" -> TRUE
      [] y.k = "ninf" -> TRUE
      [] x.k = "ninf" -> FALSE
      [] y.k = "pinf" -> FALSE
      [] x.k = "exp" /\ y.k = "exp" -> x.n >= y.n
      [] OTHER -> RatGe(ToRat(x), ToRat(y))

(***************************************************************************)
(* Token Store (fst::Map): a finite map from token to packed Counter.  Its *)
(* stream() yields the entries in ascending byte order of the key.         *)
(***************************************************************************)
\* The tokens of the model, in ascending byte order.
Words == <<"123", "free", "hello", "money">>

WordSet == {Words[i] : i \in 1 .. Len(Words)}

\* The keys of a store in the order stream() yields them.
StreamKeys(m) == SelectSeq(Words, LAMBDA w : w \in DOMAIN m)

\* The store holding the given Counters.
StoreOf(f) == [t \in DOMAIN f |-> to_u64(f[t])]

EmptyStore == [t \in {} |-> 0]

(***************************************************************************)
(* ClassifierStats (classifier.rs:31-77)                                   *)
(***************************************************************************)
StatsNew == [total_spam |-> 0, total_ham |-> 0, total_tokens |-> 0, unique_tokens |-> 0]

\* The while-let loop of from_model over the stream, from entry i on.
RECURSIVE StatsLoop(_, _, _, _)
StatsLoop(m, keys, i, stats) ==
    IF i > Len(keys) THEN stats
    ELSE LET counter == from_u64(m[keys[i]])
         IN  StatsLoop(m, keys, i + 1,
                 [stats EXCEPT !.total_spam = WrappingAdd(@, counter.spam),
                               !.total_ham = WrappingAdd(@, counter.ham),
                               !.unique_tokens = WrappingAdd(@, 1)])

\* ClassifierStats::from_model in a build without overflow checks.
StatsFromModel(m) ==
    LET stats == StatsLoop(m, StreamKeys(m), 1, StatsNew)
    IN  [stats EXCEPT !.total_tokens = WrappingAdd(stats.total_spam, stats.total_ham)]

\* Whether some `+=` or `+` of from_model overflows: with overflow checks
\* the call panics there.
RECURSIVE StatsLoopOverflows(_, _, _, _)
StatsLoopOverflows(m, keys, i, stats) ==
    IF i > Len(keys) THEN Overflows(stats.total_spam, stats.total_ham)
    ELSE LET counter == from_u64(m[keys[i]])
         IN  \/ Overflows(stats.total_spam, counter.spam)
             \/ Overflows(stats.total_ham, counter.ham)
             \/ Overflows(stats.unique_tokens, 1)
             \/ StatsLoopOverflows(m, keys, i + 1,
                    [stats EXCEPT !.total_spam = WrappingAdd(@, counter.spam),
                                  !.total_ham = WrappingAdd(@, counter.ham),
                                  !.unique_tokens = WrappingAdd(@, 1)])

StatsFromModelOverflows(m) == StatsLoopOverflows(m, StreamKeys(m), 1, StatsNew)

\* Faulty variant: prior_spam without the guard of lines 67-69.
prior_spam_unguarded(stats) == FDiv(AsF32(stats.total_spam), AsF32(stats.total_tokens))

prior_spam(stats) ==
    IF stats.total_tokens = 0 THEN Half
    ELSE FDiv(AsF32(stats.total_spam), AsF32(stats.total_tokens))

prior_ham(stats) == FSub(One, prior_spam(stats))

(***************************************************************************)
(* Tokenizer (classifier.rs:215-233).  A text is a sequence of surface     *)
(* segments, written `rep` times over ([base, rep]); the segmenter         *)
(* classifies each segment and normalises it (lower case, stem); tokenize  *)
(* keeps the normalised form of the AlphaNumeric ones.                     *)
(***************************************************************************)
Segments == {"Free", "money", "hello", "123", "!"}

SegmentKind(s) == IF s = "!" THEN "Punctuation" ELSE "AlphaNumeric"

Normalized(s) == IF s = "Free" THEN "free" ELSE s

tokenize(input) ==
    LET kept == SelectSeq(input.base, LAMBDA s : SegmentKind(s) = "AlphaNumeric")
    IN  [i \in 1 .. (Len(kept) * input.rep) |-> Normalized(kept[((i - 1) % Len(kept)) + 1])]

(***************************************************************************)
(* NaiveBayesClassifier (classifier.rs:79-204)                             *)
(***************************************************************************)
SPAM_TRESHOLD == Rat(4, 5)

DEFAULT_ALPHA == One

\* self: [model, stats, alpha, spam_threshold]
calculate_likelihoods(self, counter) ==
    LET spam_numerator   == FAdd(AsF32(counter.spam), self.alpha)
        spam_denominator == FAdd(AsF32(self.stats.total_spam),
                                 FMul(self.alpha, AsF32(self.stats.unique_tokens)))
        spam_likelihood  == FDiv(spam_numerator, spam_denominator)
        ham_numerator    == FAdd(AsF32(counter.ham), self.alpha)
        ham_denominator  == FAdd(AsF32(self.stats.total_ham),
                                 FMul(self.alpha, AsF32(self.stats.unique_tokens)))
        ham_likelihood   == FDiv(ham_numerator, ham_denominator)
    IN  <<spam_likelihood, ham_likelihood>>

\* Faulty variant: a lookup that never finds the word.
get_token_counter_miss(self, word) == CounterDefault

get_token_counter(self, word) ==
    IF word \in DOMAIN self.model THEN from_u64(self.model[word]) ELSE CounterDefault

LogPair(p) == <<FLn(p[1]), FLn(p[2])>>

AddPair(a, b) == <<FAdd(a[1], b[1]), FAdd(a[2], b[2])>>

\* The for loop of classify over tokens[lo .. hi]: the totals that the loop
\* adds to <<log_prob_spam, log_prob_ham>>.  The range is summed by halves,
\* which keeps the evaluation shallow; without rounding the sum does not
\* depend on the order.
RECURSIVE ClassifyLoop(_, _, _, _)
ClassifyLoop(self, tokens, lo, hi) ==
    IF lo = hi
    THEN LogPair(calculate_likelihoods(self, get_token_counter(self, tokens[lo])))
    ELSE AddPair(ClassifyLoop(self, tokens, lo, (lo + hi) \div 2),
                 ClassifyLoop(self, tokens, ((lo + hi) \div 2) + 1, hi))

\* <<log_prob_spam, log_prob_ham>> after the loop (lines 138-148).
LogProbs(self, tokens) ==
    AddPair(<<FLn(prior_spam(self.stats)), FLn(prior_ham(self.stats))>>,
            ClassifyLoop(self, tokens, 1, Len(tokens)))

\* Lines 151-154: log_denominator, log_prob_spam_given_text and `result`.
Bayes(log_prob) ==
    FExp(FSub(log_prob[1], FLn(FAdd(FExp(log_prob[1]), FExp(log_prob[2])))))

\* The local `result` of classify (line 154), before the NaN/infinity check.
Normalised(self, tokens) == Bayes(LogProbs(self, tokens))

\* Faulty variant: the check of line 157 without is_infinite.
Fallback_nan_only(self, result) ==
    IF is_nan(result) THEN prior_spam(self.stats) ELSE result

\* Lines 157-161: what classify returns given the value of `result`.
Fallback(self, result) ==
    IF is_nan(result) \/ is_infinite(result) THEN prior_spam(self.stats) ELSE result

\* One call of classify on the tokens of its text: whether it returned
\* early (line 134), `result` (NaN stands for none on an early return) and
\* the value returned.
Returned(early, result, ret) == [early |-> early, result |-> result, ret |-> ret]

WithResult(self, result) == Returned(FALSE, result, Fallback(self, result))

ClassifyTokens(self, tokens) ==
    IF tokens = << >> THEN Returned(TRUE, NaN, prior_spam(self.stats))
    ELSE WithResult(self, Normalised(self, tokens))

classify(self, text) == ClassifyTokens(self, tokenize(text)).ret

\* The ClassificationResult of lines 193-202.
ResultOf(spam_probability, is_spam) ==
    [spam_probability |-> spam_probability,
     ham_probability  |-> FSub(One, spam_probability),
     is_spam          |-> is_spam,
     confidence       |-> IF is_spam THEN spam_probability
                          ELSE FSub(One, spam_probability)]

\* Faulty variant: is_spam decided by > instead of >=.
Detailed_strict(spam_probability, spam_threshold) ==
    ResultOf(spam_probability,
             FGe(spam_probability, spam_threshold) /\ ~FGe(spam_threshold, spam_probability))

Detailed(spam_probability, spam_threshold) ==
    ResultOf(spam_probability, FGe(spam_probability, spam_threshold))

classify_detailed(self, text) == Detailed(classify(self, text), self.spam_threshold)

(***************************************************************************)
(* Settings and handle (lib.rs:43-94)                                      *)
(***************************************************************************)
\* The strings a setting is given as, and what str::parse::<f64> makes of
\* each: Some(value) as <<value>>, None as << >>.
SettingStrings == {"0.5", "2", "NaN", "abc"}

ParseF64(str) ==
    CASE str = "0.5" -> <<Half>>
      [] str = "2"   -> <<Rat(2, 1)>>
      [] str = "NaN" -> <<NaN>>
      [] OTHER       -> << >>

SettingKeys == {"spam_threshold", "laplace_smoothing_factor"}

\* The value of a key in the header's JSON object: a JSON string, written
\* "0.5", or a JSON number, written 0.5 (as the string "#0.5" here).
JsonNumber == "#0.5"

JsonValues == SettingStrings \cup {JsonNumber}

\* The x-edgee-component-settings header of a request: absent, not the text
\* of a JSON object, or a JSON object.
NoHeader == [kind |-> "absent", data |-> EmptyStore]

BadHeader == [kind |-> "invalid", data |-> EmptyStore]

Headers ==
    {NoHeader, BadHeader} \cup
    {[kind |-> "map", data |-> d] :
        d \in UNION {[ks -> JsonValues] : ks \in SUBSET SettingKeys}}

\* Whether serde_json::from_str::<HashMap<String, String>> accepts the
\* object (line 76): every value has to be a JSON string.
IsStringMap(data) == \A k \in DOMAIN data : data[k] \in SettingStrings

\* data.get(key).and_then(|s| s.parse::<f64>().ok()).unwrap_or(default)
Setting(data, key, default) ==
    IF key \in DOMAIN data /\ ParseF64(data[key]) # << >>
    THEN ParseF64(data[key])[1]
    ELSE default

\* Settings::new: <<"Ok", settings>> or <<"Err", message>>.
SettingsNew(header) ==
    IF header.kind = "absent"
    THEN <<"Err", "Missing 'x-edgee-component-settings' header">>
    ELSE IF header.kind = "invalid"
    THEN <<"Err", "invalid settings JSON">>
    ELSE IF ~IsStringMap(header.data)
    THEN <<"Err", "invalid type: floating point 0.5, expected a string">>
    ELSE <<"Ok", [spam_threshold |->
                      Setting(header.data, "spam_threshold", SPAM_TRESHOLD),
                  laplace_smoothing_factor |->
                      Setting(header.data, "laplace_smoothing_factor", DEFAULT_ALPHA)]>>

\* The classifier handle builds and configures (lines 47-49).
Configured(m, settings) ==
    [model |-> m, stats |-> StatsFromModel(m),
     alpha |-> settings.laplace_smoothing_factor,
     spam_threshold |-> settings.spam_threshold]

\* Lines 52-61: the response built from the ClassificationResult.
Response(input, result) ==
    [status |-> 200,
     body |-> [text |-> input,
               spam_probability |-> result.spam_probability,
               ham_probability |-> result.ham_probability,
               is_spam |-> result.is_spam,
               confidence |-> result.confidence]]

Handled(input, classifier, result) ==
    [op |-> "handle", outcome |-> "Ok", text |-> input, self |-> classifier,
     detailed |-> result, response |-> Response(input, result)]

\* handle with settings that parsed, given the embedded model.
HandleOk(m, input, settings) ==
    Handled(input, Configured(m, settings),
            classify_detailed(Configured(m, settings), input))

\* handle(req): Err(message) when the settings do not parse, a panic when
\* building the classifier overflows in a checked build.
handle(m, checked, input, header) ==
    IF SettingsNew(header)[1] = "Err"
    THEN [op |-> "handle", outcome |-> "Err", text |-> input,
          error |-> SettingsNew(header)[2]]
    ELSE IF checked /\ StatsFromModelOverflows(m)
    THEN [op |-> "handle", outcome |-> "panic", text |-> input]
    ELSE HandleOk(m, input, SettingsNew(header)[2])

(***************************************************************************)
(* State                                                                   *)
(***************************************************************************)
VARIABLES
    overflow_checks,  \* whether the build traps integer overflow (debug profile)
    model,            \* MODEL, the embedded Token Store
    clf,              \* the classifier object: "unbuilt", "ready" or "panicked"
    stats,            \* self.stats
    alpha,            \* self.alpha
    spam_threshold,   \* self.spam_threshold
    last,             \* the latest call and what it returned
    cnt,              \* a Counter
    packed,           \* cnt.to_u64(), once taken: << >> or <<value>>
    unpacked,         \* Counter::from_u64 of that value, once taken
    dataset,          \* the file at the trainer's input path
    output,           \* the file at the trainer's output path
    prior,            \* what the output path held when the run started
    runs,             \* the number of trainer runs completed
    pc,               \* where the trainer's main is
    panic_line,       \* the line of train.rs that panicked, 0 if none
    counters,         \* main's `counters`
    sorted_counters,  \* main's `counters` of line 136: the list of entries
    tstats,           \* main's `stats`
    pos,              \* the number of dataset records the reader has yielded
    request,          \* the incoming request of a call of run
    rpc,              \* where run is
    calls,            \* the number of times run has invoked the handler
    result,           \* what the handler returned
    sent              \* the responses run has sent, in order

classifierVars == <<model, clf, stats, alpha, spam_threshold, last>>

counterVars == <<cnt, packed, unpacked>>

trainerVars ==
    <<dataset, output, prior, runs, pc, panic_line, counters, sorted_counters, tstats, pos>>

runnerVars == <<request, rpc, calls, result, sent>>

vars == <<overflow_checks, classifierVars, counterVars, trainerVars, runnerVars>>

Self == [model |-> model, stats |-> stats, alpha |-> alpha,
         spam_threshold |-> spam_threshold]

(***************************************************************************)
(* Inputs                                                                  *)
(***************************************************************************)
MaxTextLen == 2

\* The lengths of the long texts: test_edge_cases repeats a text 100 times;
\* 148 repetitions carry a sum of logarithms below that of 2^-126.
LongRepeats == {100, 148}

Text(base, r) == [base |-> base, rep |-> r]

ShortTexts == {Text(b, 1) : b \in UNION {[1 .. n -> Segments] : n \in 0 .. MaxTextLen}}

LongTexts == {Text(b, r) : b \in {<<"Free">>, <<"Free", "hello">>}, r \in LongRepeats}

Texts == ShortTexts \cup LongTexts

\* The store of spec section 8: free (5,0), money (4,1), hello (0,3).
DemoStore ==
    StoreOf([t \in {"free", "money", "hello"} |->
                CASE t = "free"  -> MkCounter(5, 0)
                  [] t = "money" -> MkCounter(4, 1)
                  [] OTHER       -> MkCounter(0, 3)])

Stores ==
    { EmptyStore,
      DemoStore,
      StoreOf([t \in {"free"} |-> MkCounter(2, 0)]),
      StoreOf([t \in {"hello"} |-> MkCounter(0, 3)]),
      StoreOf([t \in {"123"} |-> MkCounter(0, 0)]),
      StoreOf([t \in {"free", "hello"} |->
                  IF t = "free" THEN MkCounter(1, 1) ELSE MkCounter(2, 3)]),
      StoreOf([t \in {"free", "money"} |->
                  IF t = "free" THEN MkCounter(U32_MAX, 0) ELSE MkCounter(0, 2)]),
      StoreOf([t \in {"free"} |-> MkCounter(U32_MAX, 1)]) }

Alphas == {DEFAULT_ALPHA, Zero, Rat(-1, 1), NaN}

Thresholds == {SPAM_TRESHOLD, Half}

Idle == [op |-> "idle"]

(***************************************************************************)
(* Actions                                                                 *)
(***************************************************************************)
\* TrainingStats::new (train.rs:28-37)
TrainingStatsNew ==
    [total_samples |-> 0, spam_samples |-> 0, ham_samples |-> 0,
     total_tokens |-> 0, unique_tokens |-> 0, avg_tokens_per_sample |-> Zero]

\* No Counter is being packed.
CounterIdle ==
    /\ cnt = CounterDefault
    /\ packed = << >>
    /\ unpacked = << >>

\* No trainer is running.
TrainerIdle ==
    /\ dataset = [readable |-> FALSE]
    /\ output = [kind |-> "absent"]
    /\ prior = [kind |-> "absent"]
    /\ runs = 0
    /\ pc = "off"
    /\ panic_line = 0
    /\ counters = EmptyStore
    /\ sorted_counters = << >>
    /\ tstats = TrainingStatsNew
    /\ pos = 0

\* No request is being served.
RunnerIdle ==
    /\ request = [convertible |-> FALSE]
    /\ rpc = "off"
    /\ calls = 0
    /\ result = Idle
    /\ sent = << >>

\* No classifier is built.
ClassifierIdle ==
    /\ model = EmptyStore
    /\ clf = "off"
    /\ stats = StatsNew
    /\ alpha = DEFAULT_ALPHA
    /\ spam_threshold = SPAM_TRESHOLD
    /\ last = Idle

Init ==
    /\ overflow_checks \in BOOLEAN
    /\ model \in Stores
    /\ clf = "unbuilt"
    /\ stats = StatsNew
    /\ alpha = DEFAULT_ALPHA
    /\ spam_threshold = SPAM_TRESHOLD
    /\ last = Idle
    /\ CounterIdle
    /\ TrainerIdle
    /\ RunnerIdle

\* NaiveBayesClassifier::new / from_model
New ==
    /\ clf = "unbuilt"
    /\ IF overflow_checks /\ StatsFromModelOverflows(model)
       THEN /\ clf' = "panicked"
            /\ UNCHANGED <<stats, alpha, spam_threshold>>
       ELSE /\ clf' = "ready"
            /\ stats' = StatsFromModel(model)
            /\ alpha' = DEFAULT_ALPHA
            /\ spam_threshold' = SPAM_TRESHOLD
    /\ last' = [op |-> "new"]
    /\ UNCHANGED <<overflow_checks, model>>
    /\ UNCHANGED <<counterVars, trainerVars, runnerVars>>

\* A setter call and its argument.
Set(op, arg) == [op |-> op, arg |-> arg]

\* Faulty variant: set_alpha keeps the old value when given a negative one
\* or NaN.
set_alpha_validated ==
    /\ clf = "ready"
    /\ \E a \in Alphas :
          /\ alpha' = IF FGe(a, Zero) THEN a ELSE alpha
          /\ last' = Set("set_alpha", a)
    /\ UNCHANGED <<overflow_checks, model, clf, stats, spam_threshold>>
    /\ UNCHANGED <<counterVars, trainerVars, runnerVars>>

set_alpha ==
    /\ clf = "ready"
    /\ \E a \in Alphas :
          /\ alpha' = a
          /\ last' = Set("set_alpha", a)
    /\ UNCHANGED <<overflow_checks, model, clf, stats, spam_threshold>>
    /\ UNCHANGED <<counterVars, trainerVars, runnerVars>>

set_spam_threshold ==
    /\ clf = "ready"
    /\ \E t \in Thresholds :
          /\ spam_threshold' = t
          /\ last' = Set("set_spam_threshold", t)
    /\ UNCHANGED <<overflow_checks, model, clf, stats, alpha>>
    /\ UNCHANGED <<counterVars, trainerVars, runnerVars>>

Called(op, text, self, out) == [op |-> op, text |-> text, self |-> self, out |-> out]

\* Faulty variant: classify counts the text it is given into the totals.
Classify_counting ==
    /\ clf = "ready"
    /\ last.op \in {"idle", "new", "set_alpha", "set_spam_threshold"}
    /\ \E text \in Texts :
          /\ last' = Called("classify", text, Self, ClassifyTokens(Self, tokenize(text)))
          /\ stats' = [stats EXCEPT !.total_tokens =
                                      WrappingAdd(@, AsU32(Len(tokenize(text))))]
    /\ UNCHANGED <<overflow_checks, model, clf, alpha, spam_threshold>>
    /\ UNCHANGED <<counterVars, trainerVars, runnerVars>>

\* classify(text)
Classify ==
    /\ clf = "ready"
    /\ last.op \in {"idle", "new", "set_alpha", "set_spam_threshold"}
    /\ \E text \in Texts :
          last' = Called("classify", text, Self, ClassifyTokens(Self, tokenize(text)))
    /\ UNCHANGED <<overflow_checks, model, clf, stats, alpha, spam_threshold>>
    /\ UNCHANGED <<counterVars, trainerVars, runnerVars>>

\* classify_detailed(text)
ClassifyDetailed ==
    /\ clf = "ready"
    /\ last.op \in {"idle", "new", "set_alpha", "set_spam_threshold"}
    /\ \E text \in Texts :
          last' = Called("classify_detailed", text, Self, classify_detailed(Self, text))
    /\ UNCHANGED <<overflow_checks, model, clf, stats, alpha, spam_threshold>>
    /\ UNCHANGED <<counterVars, trainerVars, runnerVars>>

\* handle(req): the request carries the input text and the settings header.
\* handle builds a classifier of its own and neither reads nor writes the
\* one above, so it is explored from the states without one.
Handle ==
    /\ clf = "unbuilt"
    /\ last.op = "idle"
    /\ \E input \in Texts, header \in Headers :
          last' = handle(model, overflow_checks, input, header)
    /\ UNCHANGED <<overflow_checks, model, clf, stats, alpha, spam_threshold>>
    /\ UNCHANGED <<counterVars, trainerVars, runnerVars>>

\* The caller drops what the latest call returned.
Return ==
    /\ last.op \notin {"idle", "new"}
    /\ last' = Idle
    /\ UNCHANGED <<overflow_checks, model, clf, stats, alpha, spam_threshold>>
    /\ UNCHANGED <<counterVars, trainerVars, runnerVars>>

Next ==
    \/ New
    \/ set_alpha
    \/ set_spam_threshold
    \/ Classify
    \/ ClassifyDetailed
    \/ Handle
    \/ Return

Spec == Init /\ [][Next]_vars

(***************************************************************************)
(* Counter round trip: a Counter is packed with to_u64 and the value is    *)
(* unpacked with from_u64.                                                 *)
(***************************************************************************)
InitCounter ==
    /\ overflow_checks = FALSE
    /\ ClassifierIdle
    /\ TrainerIdle
    /\ RunnerIdle
    /\ cnt \in Counter
    /\ packed = << >>
    /\ unpacked = << >>

\* Counter::to_u64
ToU64 ==
    /\ packed = << >>
    /\ packed' = <<to_u64(cnt)>>
    /\ UNCHANGED <<cnt, unpacked>>
    /\ UNCHANGED <<overflow_checks, classifierVars, trainerVars, runnerVars>>

\* Counter::from_u64
FromU64 ==
    /\ packed # << >>
    /\ unpacked = << >>
    /\ unpacked' = <<from_u64(packed[1])>>
    /\ UNCHANGED <<cnt, packed>>
    /\ UNCHANGED <<overflow_checks, classifierVars, trainerVars, runnerVars>>

NextCounter ==
    \/ ToU64
    \/ FromU64

SpecCounter == InitCounter /\ [][NextCounter]_vars

(***************************************************************************)
(* The trainer (train.rs:62-184).                                          *)
(*                                                                         *)
(* The dataset is a CSV file: a header row and records, each with a number *)
(* of fields.  The reader is built with has_headers(true) and is not       *)
(* flexible, so it yields Err for a record whose number of fields differs  *)
(* from the header's, and line 104 drops those.                            *)
(*                                                                         *)
(* The file at the output path is absent, just created (empty), or a blob. *)
(* fst::Map::new checks the blob's size, version and root address only     *)
(* (the checksum is checked by verify(), which main never calls):          *)
(* well_formed says whether Map::new accepts the blob, intact whether its  *)
(* bytes are those a builder wrote, and entries what its stream yields.    *)
(***************************************************************************)
TEXT_INDEX == 0

LABEL_INDEX == 1

LABEL_HAM == "ham"

LABEL_SPAM == "spam"

MaxRecords == 2

MaxRuns == 2

Labels == {LABEL_SPAM, LABEL_HAM, "other"}

TrainTexts == {Text(<<"Free", "!", "Free">>, 1), Text(<<"hello", "money">>, 1)}

Record(fields, text, label) == [fields |-> fields, text |-> text, label |-> label]

\* Records with both fields, and a record with a single field.
Records ==
    {Record(2, t, l) : t \in TrainTexts, l \in Labels}
        \cup {Record(1, Text(<<"hello", "money">>, 1), "")}

Datasets ==
    {[readable |-> FALSE]} \cup
    {[readable |-> TRUE, header |-> h, records |-> r] :
        h \in 1 .. 2, r \in UNION {[1 .. n -> Records] : n \in 0 .. MaxRecords}}

Absent == [kind |-> "absent"]

Created == [kind |-> "created"]

Blob(well_formed, intact, entries) ==
    [kind |-> "blob", well_formed |-> well_formed, intact |-> intact, entries |-> entries]

\* What MapBuilder writes for the given entries.
Built(entries) == Blob(TRUE, TRUE, entries)

\* The files the output path may hold before the first run: none, stores
\* written by earlier runs, a blob cut short, and a blob one of whose value
\* bytes has changed.
Outputs ==
    { Absent,
      Built(EmptyStore),
      Built(StoreOf([t \in {"free", "hello"} |->
                        IF t = "free" THEN MkCounter(1, 0) ELSE MkCounter(0, 2)])),
      Built(StoreOf([t \in {"free"} |-> MkCounter(U32_MAX, 0)])),
      Built(StoreOf([t \in {"hello"} |->
                        MkCounter(Pow2(U32_BITS - 1), Pow2(U32_BITS - 1))])),
      Blob(FALSE, FALSE, EmptyStore),
      Blob(TRUE, FALSE, StoreOf([t \in {"free"} |-> MkCounter(3, 0)])) }

\* main's locals while a step runs: the line that panicked (0 if none),
\* `counters` and `stats`.
Locals(panic, cs, st) == [panic |-> panic, counters |-> cs, stats |-> st]

\* stats.<field> += n at the given line.
AddAssign(checked, rs, field, n, line) ==
    IF rs.panic # 0 THEN rs
    ELSE IF checked /\ Overflows(rs.stats[field], n)
         THEN [rs EXCEPT !.panic = line]
         ELSE [rs EXCEPT !.stats[field] = WrappingAdd(@, n)]

\* a + b evaluated at the given line, before it is used.
Checked(checked, rs, a, b, line) ==
    IF rs.panic = 0 /\ checked /\ Overflows(a, b) THEN [rs EXCEPT !.panic = line] ELSE rs

\* Faulty variant: the entry read from the prior store is not kept.
Insert_skipped(rs, key, counter) == rs

\* counters.insert(key, counter) (line 88)
Insert(rs, key, counter) ==
    IF rs.panic # 0 THEN rs
    ELSE [rs EXCEPT !.counters =
             [t \in DOMAIN rs.counters \cup {key} |->
                 IF t = key THEN counter ELSE rs.counters[t]]]

\* One iteration of the loop of lines 84-91.
LoadEntry(checked, rs, key, counter) ==
    AddAssign(checked,
        AddAssign(checked,
            Checked(checked, Insert(rs, key, counter), counter.spam, counter.ham, 89),
            "total_tokens", WrappingAdd(counter.spam, counter.ham), 89),
        "unique_tokens", 1, 90)

RECURSIVE LoadLoop(_, _, _, _, _)
LoadLoop(checked, rs, entries, keys, i) ==
    IF i > Len(keys) THEN rs
    ELSE LoadLoop(checked,
                  LoadEntry(checked, rs, keys[i], from_u64(entries[keys[i]])),
                  entries, keys, i + 1)

\* Faulty variant: the entry of the token is replaced by a fresh Counter.
OrDefault_reset(cs, token) ==
    [t \in DOMAIN cs \cup {token} |-> IF t = token THEN CounterDefault ELSE cs[t]]

\* counters.entry(token).or_default() (line 122)
OrDefault(cs, token) ==
    [t \in DOMAIN cs \cup {token} |-> IF t \in DOMAIN cs THEN cs[t] ELSE CounterDefault]

\* counter.<field> += 1 on the entry of the token (lines 125 and 127).
Increment(checked, rs, token, field, line) ==
    IF checked /\ Overflows(OrDefault(rs.counters, token)[token][field], 1)
    THEN [rs EXCEPT !.panic = line, !.counters = OrDefault(rs.counters, token)]
    ELSE [rs EXCEPT !.counters =
             [OrDefault(rs.counters, token) EXCEPT ![token][field] = WrappingAdd(@, 1)]]

\* Faulty variant: a token of a sample that is neither spam nor ham is not
\* entered into the accumulator.
CountToken_labelled_only(checked, rs, token, is_spam, is_ham) ==
    IF rs.panic # 0 THEN rs
    ELSE IF is_spam THEN Increment(checked, rs, token, "spam", 125)
    ELSE IF is_ham THEN Increment(checked, rs, token, "ham", 127)
    ELSE rs

\* One iteration of the loop of lines 121-129.
CountToken(checked, rs, token, is_spam, is_ham) ==
    IF rs.panic # 0 THEN rs
    ELSE IF is_spam THEN Increment(checked, rs, token, "spam", 125)
    ELSE IF is_ham THEN Increment(checked, rs, token, "ham", 127)
    ELSE [rs EXCEPT !.counters = OrDefault(rs.counters, token)]

RECURSIVE TokenLoop(_, _, _, _, _, _)
TokenLoop(checked, rs, tokens, i, is_spam, is_ham) ==
    IF i > Len(tokens) THEN rs
    ELSE TokenLoop(checked, CountToken(checked, rs, tokens[i], is_spam, is_ham),
                   tokens, i + 1, is_spam, is_ham)

\* Lines 111-116.
CountSample(checked, rs, is_spam, is_ham) ==
    AddAssign(checked,
        IF is_spam THEN AddAssign(checked, rs, "spam_samples", 1, 112)
        ELSE IF is_ham THEN AddAssign(checked, rs, "ham_samples", 1, 114)
        ELSE rs,
        "total_samples", 1, 116)

\* Lines 109-129 for a record whose text and label are there.
Sample(checked, rs, tokens, is_spam, is_ham) ==
    TokenLoop(checked,
        AddAssign(checked, CountSample(checked, rs, is_spam, is_ham),
                  "total_tokens", AsU32(Len(tokens)), 119),
        tokens, 1, is_spam, is_ham)

\* record.get(index): the field, if the record has it.
HasField(record, index) == index < record.fields

\* The body of the loop of lines 105-130 for a record the reader yields.
ProcessRecord(checked, rs, record) ==
    IF ~HasField(record, TEXT_INDEX) THEN [rs EXCEPT !.panic = 106]
    ELSE IF ~HasField(record, LABEL_INDEX) THEN [rs EXCEPT !.panic = 107]
    ELSE Sample(checked, rs, tokenize(record.text),
                record.label = LABEL_SPAM, record.label = LABEL_HAM)

\* Whether record.ok() is Some (line 104).
RecordOk(data, record) == record.fields = data.header

\* The loop of lines 166-171 and line 180: the line that panics, 0 if none.
RECURSIVE ValidateLoop(_, _, _, _, _, _, _)
ValidateLoop(checked, entries, keys, i, total_spam, total_ham, unique_tokens) ==
    IF i > Len(keys)
    THEN IF checked /\ Overflows(total_spam, total_ham) THEN 180 ELSE 0
    ELSE IF checked /\ Overflows(total_spam, from_u64(entries[keys[i]]).spam) THEN 168
    ELSE IF checked /\ Overflows(total_ham, from_u64(entries[keys[i]]).ham) THEN 169
    ELSE IF checked /\ Overflows(unique_tokens, 1) THEN 170
    ELSE ValidateLoop(checked, entries, keys, i + 1,
                      WrappingAdd(total_spam, from_u64(entries[keys[i]]).spam),
                      WrappingAdd(total_ham, from_u64(entries[keys[i]]).ham),
                      WrappingAdd(unique_tokens, 1))

validate_model(checked, file) ==
    IF file.kind # "blob" \/ ~file.well_formed THEN 159
    ELSE ValidateLoop(checked, file.entries, StreamKeys(file.entries), 1, 0, 0, 0)

\* The orders in which a HashMap with the given keys may yield them.
Orders(keys) ==
    {order \in [1 .. Cardinality(keys) -> keys] :
        \A i, j \in 1 .. Cardinality(keys) : order[i] = order[j] => i = j}

\* counters.into_iter().collect() (line 136): the (token, Counter) pairs in
\* the order the map yields them.
Collect(cs, order) == [i \in 1 .. Len(order) |-> <<order[i], cs[order[i]]>>]

\* left.cmp(right) is Less, for tokens: the order of their bytes.
Rank(w) == CHOOSE i \in 1 .. Len(Words) : Words[i] = w

Less(left, right) == Rank(left) < Rank(right)

\* The place of an entry in a sorted list: after the entries that are not
\* greater than it.
Place(list, entry) == Cardinality({i \in 1 .. Len(list) : ~Less(entry[1], list[i][1])})

PutAt(list, entry, k) == SubSeq(list, 1, k) \o <<entry>> \o SubSeq(list, k + 1, Len(list))

\* Faulty variant: the list is left in the order the map yielded it.
sort_by_skipped(list) == list

\* counters.sort_by(|(left, _), (right, _)| left.cmp(right)) (line 137)
RECURSIVE sort_by(_)
sort_by(list) ==
    IF list = << >> THEN << >>
    ELSE PutAt(sort_by(SubSeq(list, 1, Len(list) - 1)), list[Len(list)],
               Place(sort_by(SubSeq(list, 1, Len(list) - 1)), list[Len(list)]))

\* The loop of lines 145-147: MapBuilder::insert accepts a key only if it is
\* greater than the key inserted before it.
RECURSIVE InsertAll(_, _, _)
InsertAll(entries, i, store) ==
    IF i > Len(entries) THEN [ok |-> TRUE, store |-> store]
    ELSE IF i > 1 /\ ~Less(entries[i - 1][1], entries[i][1])
    THEN [ok |-> FALSE, store |-> store]
    ELSE InsertAll(entries, i + 1,
                   [t \in DOMAIN store \cup {entries[i][1]} |->
                       IF t = entries[i][1] THEN to_u64(entries[i][2]) ELSE store[t]])

InitTrainer ==
    /\ overflow_checks \in BOOLEAN
    /\ ClassifierIdle
    /\ CounterIdle
    /\ RunnerIdle
    /\ dataset \in Datasets
    /\ output \in Outputs
    /\ prior = output
    /\ runs = 0
    /\ pc = "start"
    /\ panic_line = 0
    /\ counters = EmptyStore
    /\ sorted_counters = << >>
    /\ tstats = TrainingStatsNew
    /\ pos = 0

\* The step leaves main's locals as rs says, and main goes on at `next`
\* unless the step panicked.
Commit(rs, next) ==
    /\ counters' = rs.counters
    /\ tstats' = rs.stats
    /\ pc' = IF rs.panic # 0 THEN "aborted" ELSE next
    /\ panic_line' = rs.panic

Panic(line) == Commit(Locals(line, counters, tstats), "aborted")

\* Lines 77-92: extend with the model if it exists.
LoadExisting ==
    /\ pc = "start"
    /\ IF output.kind = "absent"
       THEN Commit(Locals(0, counters, tstats), "loaded")
       ELSE IF output.kind # "blob" \/ ~output.well_formed
       THEN Panic(81)
       ELSE Commit(LoadLoop(overflow_checks, Locals(0, counters, tstats),
                            output.entries, StreamKeys(output.entries), 1),
                   "loaded")
    /\ UNCHANGED <<dataset, output, prior, runs, sorted_counters, pos>>
    /\ UNCHANGED <<overflow_checks, classifierVars, counterVars, runnerVars>>

\* Lines 97-104: open the dataset and build the reader.
OpenInput ==
    /\ pc = "loaded"
    /\ IF dataset.readable
       THEN Commit(Locals(0, counters, tstats), "reading")
       ELSE Panic(97)
    /\ UNCHANGED <<dataset, output, prior, runs, sorted_counters, pos>>
    /\ UNCHANGED <<overflow_checks, classifierVars, counterVars, runnerVars>>

\* Lines 104-130: the reader yields the next record of the dataset; line 104
\* drops it or the loop body runs on it.
ReadRecord ==
    /\ pc = "reading"
    /\ pos < Len(dataset.records)
    /\ pos' = pos + 1
    /\ IF RecordOk(dataset, dataset.records[pos + 1])
       THEN Commit(ProcessRecord(overflow_checks, Locals(0, counters, tstats),
                                 dataset.records[pos + 1]),
                   "reading")
       ELSE Commit(Locals(0, counters, tstats), "reading")
    /\ UNCHANGED <<dataset, output, prior, runs, sorted_counters>>
    /\ UNCHANGED <<overflow_checks, classifierVars, counterVars, runnerVars>>

\* Lines 132-137: the reader is exhausted; the statistics are completed and
\* the counters sorted.
EndOfRecords ==
    /\ pc = "reading"
    /\ pos = Len(dataset.records)
    /\ tstats' = [tstats EXCEPT
                     !.unique_tokens = AsU32(Cardinality(DOMAIN counters)),
                     !.avg_tokens_per_sample =
                         FDiv(AsF32(tstats.total_tokens), AsF32(tstats.total_samples))]
    /\ \E order \in Orders(DOMAIN counters) :
          sorted_counters' = sort_by(Collect(counters, order))
    /\ pc' = "sorted"
    /\ UNCHANGED <<dataset, output, prior, runs, panic_line, counters, pos>>
    /\ UNCHANGED <<overflow_checks, classifierVars, counterVars, runnerVars>>

\* Lines 142-143: File::create creates or truncates the output path.
CreateOutput ==
    /\ pc = "sorted"
    /\ output' = Created
    /\ pc' = "created"
    /\ UNCHANGED <<dataset, prior, runs, panic_line, counters, sorted_counters, tstats, pos>>
    /\ UNCHANGED <<overflow_checks, classifierVars, counterVars, runnerVars>>

\* Lines 145-149: every entry is inserted and the builder finished; a
\* rejected insert panics at line 146 and leaves the file as it is.
WriteModel ==
    /\ pc = "created"
    /\ IF InsertAll(sorted_counters, 1, EmptyStore).ok
       THEN /\ output' = Built(InsertAll(sorted_counters, 1, EmptyStore).store)
            /\ pc' = "written"
            /\ panic_line' = panic_line
       ELSE /\ output' = output
            /\ pc' = "aborted"
            /\ panic_line' = 146
    /\ UNCHANGED <<dataset, prior, runs, counters, sorted_counters, tstats, pos>>
    /\ UNCHANGED <<overflow_checks, classifierVars, counterVars, runnerVars>>

\* Line 154: validate_model, after which main returns.
Validate ==
    /\ pc = "written"
    /\ panic_line' = validate_model(overflow_checks, output)
    /\ pc' = IF panic_line' # 0 THEN "aborted" ELSE "done"
    /\ runs' = IF panic_line' # 0 THEN runs ELSE runs + 1
    /\ UNCHANGED <<dataset, output, prior, counters, sorted_counters, tstats, pos>>
    /\ UNCHANGED <<overflow_checks, classifierVars, counterVars, runnerVars>>

\* The trainer is started again with the same two arguments.
Rerun ==
    /\ pc = "done"
    /\ runs < MaxRuns
    /\ pc' = "start"
    /\ prior' = output
    /\ counters' = EmptyStore
    /\ sorted_counters' = << >>
    /\ tstats' = TrainingStatsNew
    /\ pos' = 0
    /\ UNCHANGED <<dataset, output, runs, panic_line>>
    /\ UNCHANGED <<overflow_checks, classifierVars, counterVars, runnerVars>>

NextTrainer ==
    \/ LoadExisting
    \/ OpenInput
    \/ ReadRecord
    \/ EndOfRecords
    \/ CreateOutput
    \/ WriteModel
    \/ Validate
    \/ Rerun

SpecTrainer == InitTrainer /\ [][NextTrainer]_vars

(***************************************************************************)
(* The request runner (helpers/mod.rs:14-65) serving one request with the  *)
(* handler of lib.rs.  The body of the request is the JSON of an Input,    *)
(* bytes that are not, or a stream that fails while it is read.            *)
(***************************************************************************)
BAD_REQUEST == 400

INTERNAL_SERVER_ERROR == 500

RunnerTexts == {Text(<< >>, 1), Text(<<"Free", "money">>, 1), Text(<<"hello">>, 1)}

Requests ==
    {[convertible |-> FALSE]} \cup
    {[convertible |-> TRUE, body |-> "json", input |-> t, header |-> h] :
        t \in RunnerTexts, h \in Headers} \cup
    {[convertible |-> TRUE, body |-> b, input |-> Text(<< >>, 1), header |-> h] :
        b \in {"malformed", "unreadable"}, h \in Headers}

\* I::from_body for Json<Input> (body.rs:7-9 and 100-105):
\* <<"Ok", input>> or <<"Err", message>>.
from_body(req) ==
    IF req.body = "unreadable" THEN <<"Err", "Failed reading request body">>
    ELSE IF req.body = "malformed" THEN <<"Err", "expected value at line 1 column 1">>
    ELSE <<"Ok", req.input>>

\* Faulty variant: every error is reported as a server error.
json_error_response_500(status_code, err) == [status |-> 500, body |-> [error |-> err]]

json_error_response(status_code, err) == [status |-> status_code, body |-> [error |-> err]]

InitRunner ==
    /\ overflow_checks \in BOOLEAN
    /\ model \in Stores
    /\ clf = "off"
    /\ stats = StatsNew
    /\ alpha = DEFAULT_ALPHA
    /\ spam_threshold = SPAM_TRESHOLD
    /\ last = Idle
    /\ CounterIdle
    /\ TrainerIdle
    /\ request \in Requests
    /\ rpc = "start"
    /\ calls = 0
    /\ result = Idle
    /\ sent = << >>

\* Line 20: req.try_into().unwrap()
Convert ==
    /\ rpc = "start"
    /\ rpc' = IF request.convertible THEN "converted" ELSE "panicked"
    /\ UNCHANGED <<request, calls, result, sent>>
    /\ UNCHANGED <<overflow_checks, classifierVars, counterVars, trainerVars>>

\* Lines 22-33: the body is parsed; on an error the 400 response is sent
\* and run returns.
ParseBody ==
    /\ rpc = "converted"
    /\ IF from_body(request)[1] = "Ok"
       THEN /\ rpc' = "parsed"
            /\ sent' = sent
       ELSE /\ rpc' = "returned"
            /\ sent' = Append(sent, json_error_response(BAD_REQUEST, from_body(request)[2]))
    /\ UNCHANGED <<request, calls, result>>
    /\ UNCHANGED <<overflow_checks, classifierVars, counterVars, trainerVars>>

\* Faulty variant: run returns on the handler's error without a response.
Handed_silent(res) ==
    /\ result' = res
    /\ rpc' = CASE res.outcome = "Ok"  -> "handled"
                [] res.outcome = "Err" -> "returned"
                [] OTHER               -> "panicked"
    /\ sent' = sent

\* What run does with the handler's return value (lines 35-45).
Handed(res) ==
    /\ result' = res
    /\ rpc' = CASE res.outcome = "Ok"  -> "handled"
                [] res.outcome = "Err" -> "returned"
                [] OTHER               -> "panicked"
    /\ sent' = IF res.outcome = "Err"
               THEN Append(sent, json_error_response(INTERNAL_SERVER_ERROR, res.error))
               ELSE sent

\* Lines 35-45: the handler is invoked; on Err the 500 response is sent and
\* run returns.
CallHandler ==
    /\ rpc = "parsed"
    /\ calls' = calls + 1
    /\ Handed(handle(model, overflow_checks, from_body(request)[2], request.header))
    /\ UNCHANGED request
    /\ UNCHANGED <<overflow_checks, classifierVars, counterVars, trainerVars>>

\* Lines 47-51: the handler's response is sent.
SendResponse ==
    /\ rpc = "handled"
    /\ sent' = Append(sent, result.response)
    /\ rpc' = "returned"
    /\ UNCHANGED <<request, calls, result>>
    /\ UNCHANGED <<overflow_checks, classifierVars, counterVars, trainerVars>>

NextRunner ==
    \/ Convert
    \/ ParseBody
    \/ CallHandler
    \/ SendResponse

SpecRunner == InitRunner /\ [][NextRunner]_vars

(***************************************************************************)
(* Properties                                                              *)
(***************************************************************************)
\* x > y on f32.
FGt(x, y) == FGe(x, y) /\ ~FGe(y, x)

InUnitInterval(p) == FGe(p, Zero) /\ FGe(One, p)

\* C1: for every text, every Token Store and every alpha, classify returns a
\* value p with 0.0 <= p <= 1.0.
C1_ProbabilityInUnitInterval ==
    last.op = "classify" => InUnitInterval(last.out.ret)

\* C2: classify never returns NaN or an infinite value: whenever the
\* normalised result is NaN or infinite it returns prior_spam instead, and
\* prior_spam is finite.
C2_NeverNaNOrInfinite ==
    last.op = "classify" =>
        /\ IsFinite(last.out.ret)
        /\ IsFinite(prior_spam(last.self.stats))
        /\ (~last.out.early /\ ~IsFinite(last.out.result))
              => last.out.ret = prior_spam(last.self.stats)

\* C2 witness: a long text drives both exponentials to zero, the normalised
\* result is infinite and classify has returned the prior.
C2_Witness ==
    /\ last.op = "classify"
    /\ ~last.out.early
    /\ IsFinite(LogProbs(last.self, tokenize(last.text))[1])
    /\ IsFinite(LogProbs(last.self, tokenize(last.text))[2])
    /\ FExp(LogProbs(last.self, tokenize(last.text))[1]) = Zero
    /\ FExp(LogProbs(last.self, tokenize(last.text))[2]) = Zero
    /\ is_infinite(last.out.result)
    /\ last.out.ret = Rat(9, 13)

\* C3: when the tokenizer yields no token, classify returns exactly
\* total_spam / total_tokens, and 0.5 when total_tokens = 0, where prior_ham
\* is 0.5 too.
C3_EmptyTokensReturnPrior ==
    (last.op = "classify" /\ tokenize(last.text) = << >>) =>
        /\ last.out.ret =
              IF last.self.stats.total_tokens = 0 THEN Rat(1, 2)
              ELSE Rat(last.self.stats.total_spam, last.self.stats.total_tokens)
        /\ last.self.stats.total_tokens = 0 => prior_ham(last.self.stats) = Rat(1, 2)

\* C3 witness: a punctuation-only text classified against an untrained
\* model has returned 0.5.
C3_Witness ==
    /\ last.op = "classify"
    /\ last.text = Text(<<"!">>, 1)
    /\ last.self.model = EmptyStore
    /\ last.self.stats.total_tokens = 0
    /\ last.out.ret = Rat(1, 2)

\* The four fields of a ClassificationResult as the spec relates them.
ResultConsistent(r, self, text) ==
    /\ r.spam_probability = ClassifyTokens(self, tokenize(text)).ret
    /\ r.ham_probability = FSub(One, r.spam_probability)
    /\ r.is_spam = FGe(r.spam_probability, self.spam_threshold)
    /\ r.confidence = IF r.is_spam THEN r.spam_probability ELSE r.ham_probability

\* C4: classify_detailed returns spam_probability = classify(text),
\* ham_probability = 1 - spam_probability, is_spam = (spam_probability >=
\* spam_threshold) and confidence = spam_probability if is_spam else
\* ham_probability; the HTTP response carries the same four values.
C4_DetailedConsistent ==
    /\ last.op = "classify_detailed" => ResultConsistent(last.out, last.self, last.text)
    /\ (last.op = "handle" /\ last.outcome = "Ok") =>
          /\ ResultConsistent(last.detailed, last.self, last.text)
          /\ last.response.body.spam_probability = last.detailed.spam_probability
          /\ last.response.body.ham_probability = last.detailed.ham_probability
          /\ last.response.body.is_spam = last.detailed.is_spam
          /\ last.response.body.confidence = last.detailed.confidence

\* C4 witness: a request with a threshold of its own ("0.5") was answered
\* with a verdict that the default threshold would not give.
C4_Witness ==
    /\ last.op = "handle"
    /\ last.outcome = "Ok"
    /\ last.self.spam_threshold = Half
    /\ last.response.body.is_spam
    /\ ~FGe(last.response.body.spam_probability, SPAM_TRESHOLD)
    /\ last.response.body.confidence = last.response.body.spam_probability

\* C5: with the store free (5,0), money (4,1), hello (0,3) and alpha 1.0,
\* the tokens [free, money] classify above 0.5 and [hello] below 0.5.
C5_DemoStoreVerdicts ==
    (/\ last.op = "classify"
     /\ last.self.model = DemoStore
     /\ last.self.alpha = DEFAULT_ALPHA) =>
        /\ tokenize(last.text) = <<"free", "money">> => FGt(last.out.ret, Half)
        /\ tokenize(last.text) = <<"hello">> => FGt(Half, last.out.ret)

\* C5 witness: [free, money] has been classified against that store.
C5_Witness ==
    /\ last.op = "classify"
    /\ last.self.model = DemoStore
    /\ last.self.stats = [total_spam |-> 9, total_ham |-> 4,
                          total_tokens |-> 13, unique_tokens |-> 3]
    /\ last.self.alpha = DEFAULT_ALPHA
    /\ tokenize(last.text) = <<"free", "money">>
    /\ FGt(last.out.ret, Half)

\* The sum of one field over the entries of a store, in the integers.
RECURSIVE SumOver(_, _, _, _)
SumOver(m, keys, i, field) ==
    IF i > Len(keys) THEN 0
    ELSE from_u64(m[keys[i]])[field] + SumOver(m, keys, i + 1, field)

\* C7: for every Token Store, from_model yields total_spam = the sum of spam
\* over all entries, total_ham = the sum of ham over all entries,
\* total_tokens = total_spam + total_ham and unique_tokens = the number of keys.
C7_StatsAreSums ==
    clf = "ready" =>
        /\ stats.total_spam = SumOver(model, StreamKeys(model), 1, "spam")
        /\ stats.total_ham = SumOver(model, StreamKeys(model), 1, "ham")
        /\ stats.total_tokens = stats.total_spam + stats.total_ham
        /\ stats.unique_tokens = Cardinality(DOMAIN model)

\* C6: for every Counter with spam and ham in [0, 2^32-1],
\* from_u64(to_u64(counter)) is the counter again, and to_u64 holds spam in
\* the high word and ham in the low word of one 64-bit integer.
C6_CounterRoundTrip ==
    /\ packed # << >> =>
          /\ packed[1] \in 0 .. Pow2(2 * U32_BITS) - 1
          /\ packed[1] \div Pow2(U32_BITS) = cnt.spam
          /\ packed[1] % Pow2(U32_BITS) = cnt.ham
    /\ unpacked # << >> => unpacked[1] = cnt

\* C6 witness: the Counter with the largest spam count and a different ham
\* count has been packed and unpacked.
C6_Witness ==
    /\ cnt = MkCounter(U32_MAX, 1)
    /\ packed = <<U32_MAX * Pow2(U32_BITS) + 1>>
    /\ unpacked = <<cnt>>

\* The number of times a token occurs among the tokens of a text.
Occurrences(tokens, t) == Cardinality({i \in 1 .. Len(tokens) : tokens[i] = t})

\* The samples of a dataset: its records with a text and a label.
IsSample(data, record) == record.fields = data.header /\ record.fields >= 2

\* The occurrences of a token in the samples of a dataset with a label.
RECURSIVE Counted(_, _, _, _)
Counted(data, i, t, label) ==
    IF i > Len(data.records) THEN 0
    ELSE (IF IsSample(data, data.records[i]) /\ data.records[i].label = label
          THEN Occurrences(tokenize(data.records[i].text), t)
          ELSE 0)
         + Counted(data, i + 1, t, label)

\* The tokens of the samples of a dataset.
DatasetTokens(data) ==
    {t \in WordSet : \E i \in 1 .. Len(data.records) :
        /\ IsSample(data, data.records[i])
        /\ Occurrences(tokenize(data.records[i].text), t) > 0}

\* The Counter a store blob holds for a token, {0,0} if none.
CounterIn(file, t) ==
    IF file.kind = "blob" /\ t \in DOMAIN file.entries
    THEN from_u64(file.entries[t])
    ELSE CounterDefault

KeysIn(file) == IF file.kind = "blob" THEN DOMAIN file.entries ELSE {}

\* The store a run on the dataset from an empty store gives.
SinglePass(data) ==
    StoreOf([t \in DatasetTokens(data) |->
                MkCounter(Counted(data, 1, t, LABEL_SPAM) % Pow2(U32_BITS),
                          Counted(data, 1, t, LABEL_HAM) % Pow2(U32_BITS))])

C9_MalformedRecordSkipped ==
    [][(/\ pc = "reading"
        /\ pos < Len(dataset.records)
        /\ dataset.records[pos + 1].fields < 2)
          => /\ pc' = "reading"
             /\ pos' = pos + 1
             /\ counters' = counters
             /\ tstats' = tstats]_vars

\* A store blob whose bytes are not those a builder wrote.
Corrupt(file) == file.kind = "blob" /\ ~file.intact

\* C10: if the dataset path is unreadable or the store blob at the output
\* path is corrupt, the trainer aborts before the output path is created or
\* truncated, and the previous artifact is left unchanged.
C10_AbortBeforeTruncate ==
    (~dataset.readable \/ Corrupt(prior)) =>
        /\ output = prior
        /\ pc \notin {"created", "written", "done"}

\* C11: a request without the x-edgee-component-settings header is
\* answered with a client error status and an {"error": message} body.
C11_MissingHeaderClientError ==
    (rpc = "returned" /\ request.header = NoHeader) =>
        /\ Len(sent) = 1
        /\ sent[1].status \in 400 .. 499
        /\ DOMAIN sent[1].body = {"error"}

\* C13: in run, a body that fails to parse yields a 400 response with body
\* {"error": message} and the handler is never invoked; a handler error
\* yields a 500 response of the same shape; a successful handler yields its
\* 200 response echoing the input text.
C13_RunnerStatuses ==
    /\ (request.convertible /\ request.body # "json") => calls = 0
    /\ rpc = "returned" =>
          /\ request.body # "json" =>
                /\ sent[1].status = 400
                /\ DOMAIN sent[1].body = {"error"}
          /\ (request.body = "json" /\ result.outcome = "Err") =>
                /\ sent[1].status = 500
                /\ sent[1].body = [error |-> result.error]
          /\ (request.body = "json" /\ result.outcome = "Ok") =>
                /\ sent[1].status = 200
                /\ sent[1].body.text = request.input

\* C13 witness: run has returned on a body that is not JSON, with the 400
\* response sent and the handler not invoked.
C13_Witness ==
    /\ rpc = "returned"
    /\ request.body = "malformed"
    /\ calls = 0
    /\ sent = <<[status |-> 400, body |-> [error |-> "expected value at line 1 column 1"]]>>

\* C20: for a request that converts, run sends exactly one response on
\* each of its paths (body-parse error, handler error, success), and it
\* invokes the handler at most once and only after the body has parsed.
C20_ExactlyOneResponse ==
    /\ calls <= 1
    /\ Len(sent) <= 1
    /\ calls = 1 => (request.convertible /\ request.body = "json"
                     /\ rpc \notin {"start", "converted", "parsed"})
    /\ rpc \in {"start", "converted", "parsed", "handled"} => sent = << >>
    /\ rpc = "returned" => Len(sent) = 1

\* C20 witness: run has returned from the handler-error path with the
\* handler invoked once and one response sent.
C20_Witness ==
    /\ rpc = "returned"
    /\ request.body = "json"
    /\ calls = 1
    /\ result.outcome = "Err"
    /\ Len(sent) = 1
    /\ sent[1].status = 500

\* The number a settings value denotes, as <<number>>, or << >> if none.
Denoted(v) ==
    CASE v = "0.5"      -> <<Rat(1, 2)>>
      [] v = JsonNumber -> <<Rat(1, 2)>>
      [] v = "2"        -> <<Rat(2, 1)>>
      [] v = "NaN"      -> <<NaN>>
      [] OTHER          -> << >>

\* The value of a setting as the spec resolves it.
Resolved(data, key, default) ==
    IF key \in DOMAIN data /\ Denoted(data[key]) # << >>
    THEN Denoted(data[key])[1]
    ELSE default

\* C12: when the settings header is present, each setting is resolved on
\* its own: an absent one takes its default (0.80, 1.0), a numeric value is
\* applied, and a value that is no number falls back to the default without
\* failing the request or affecting the other setting.
C12_SettingsResolved ==
    (result # Idle /\ request.header.kind = "map") =>
        /\ result.outcome # "Err"
        /\ result.outcome = "Ok" =>
              /\ result.self.spam_threshold =
                    Resolved(request.header.data, "spam_threshold", Rat(4, 5))
              /\ result.self.alpha =
                    Resolved(request.header.data, "laplace_smoothing_factor", Rat(1, 1))

Fresh(m, a, t) == [model |-> m, stats |-> StatsFromModel(m), alpha |-> a, spam_threshold |-> t]

Held(cs, t) == IF t \in DOMAIN cs THEN cs[t] ELSE CounterDefault

\* Whether the step is the loop body run to its end on a sample.
SampleCounted ==
    /\ pc = "reading"
    /\ pos' = pos + 1
    /\ pc' = "reading"
    /\ IsSample(dataset, dataset.records[pos'])

\* The increments a sample with the label gives a count of its class.
Gain(record, t, label) ==
    IF record.label = label THEN Occurrences(tokenize(record.text), t) ELSE 0

RECURSIVE RecordLoop(_, _, _, _)
RecordLoop(checked, rs, data, i) ==
    IF i > Len(data.records) \/ rs.panic # 0 THEN rs
    ELSE RecordLoop(checked,
                    IF RecordOk(data, data.records[i])
                    THEN ProcessRecord(checked, rs, data.records[i])
                    ELSE rs,
                    data, i + 1)

\* main's locals at line 132 of a run on the dataset whose output path
\* holds the file (lines 73-130).
TrainedOn(checked, file, data) ==
    RecordLoop(checked,
               IF file.kind = "absent" THEN Locals(0, EmptyStore, TrainingStatsNew)
               ELSE LoadLoop(checked, Locals(0, EmptyStore, TrainingStatsNew),
                             file.entries, StreamKeys(file.entries), 1),
               data, 1)

\* spam_denominator and ham_denominator of calculate_likelihoods
\* (classifier.rs:109-110 and 114-115).
Denominators(st, a) ==
    <<FAdd(AsF32(st.total_spam), FMul(a, AsF32(st.unique_tokens))),
      FAdd(AsF32(st.total_ham), FMul(a, AsF32(st.unique_tokens)))>>

\* The dataset without its samples labelled neither "spam" nor "ham".
Labelled(data) ==
    [data EXCEPT !.records =
        SelectSeq(@, LAMBDA r : ~IsSample(data, r) \/ r.label \in {LABEL_SPAM, LABEL_HAM})]

\* The statistics a classifier computes from the store a run on the
\* dataset without those samples writes.
StatsWithout(checked, file, data) ==
    StatsFromModel(StoreOf(TrainedOn(checked, file, Labelled(data)).counters))

\* Whether the two stores can be compared: the run without the samples
\* completes too, and no total of either store exceeds 32 bits.
Comparable ==
    /\ pc \in {"written", "done"}
    /\ TrainedOn(overflow_checks, prior, Labelled(dataset)).panic = 0
    /\ ~StatsFromModelOverflows(output.entries)
    /\ ~StatsFromModelOverflows(
            StoreOf(TrainedOn(overflow_checks, prior, Labelled(dataset)).counters))

\* C17 as stated: the store written from a dataset, compared with the
\* store written from the same dataset without its samples labelled neither
\* "spam" nor "ham", has at least as many unique tokens, the same priors and,
\* for the default alpha, the same two likelihood denominators.
C17_UnlabelledNeutral ==
    Comparable =>
        /\ StatsFromModel(output.entries).unique_tokens >=
              StatsWithout(overflow_checks, prior, dataset).unique_tokens
        /\ prior_spam(StatsFromModel(output.entries)) =
              prior_spam(StatsWithout(overflow_checks, prior, dataset))
        /\ prior_ham(StatsFromModel(output.entries)) =
              prior_ham(StatsWithout(overflow_checks, prior, dataset))
        /\ Denominators(StatsFromModel(output.entries), DEFAULT_ALPHA) =
              Denominators(StatsWithout(overflow_checks, prior, dataset), DEFAULT_ALPHA)

\* The part of C17 the code keeps: unique tokens do not shrink, priors are
\* the same.
C17_PriorsUnchanged ==
    Comparable =>
        /\ StatsFromModel(output.entries).unique_tokens >=
              StatsWithout(overflow_checks, prior, dataset).unique_tokens
        /\ prior_spam(StatsFromModel(output.entries)) =
              prior_spam(StatsWithout(overflow_checks, prior, dataset))
        /\ prior_ham(StatsFromModel(output.entries)) =
              prior_ham(StatsWithout(overflow_checks, prior, dataset))

\* Whether the tokens of a list of entries are in strict ascending order
\* (and so unique).
StrictlyAscending(list) ==
    \A i \in 1 .. Len(list) - 1 : Less(list[i][1], list[i + 1][1])

\* C18: whatever the prior store, the dataset and the order in which the
\* accumulator yields its entries, the list given to the builder holds each
\* key of the accumulator once, with its Counter, in strict ascending order
\* of the tokens; no insert is rejected, and the store written holds exactly
\* these entries.
C18_SortedUniqueEntries ==
    /\ panic_line # 146
    /\ pc \in {"sorted", "created", "written", "done"} =>
          /\ StrictlyAscending(sorted_counters)
          /\ Len(sorted_counters) = Cardinality(DOMAIN counters)
          /\ \A i \in 1 .. Len(sorted_counters) :
                /\ sorted_counters[i][1] \in DOMAIN counters
                /\ sorted_counters[i][2] = counters[sorted_counters[i][1]]
    /\ pc \in {"written", "done"} =>
          /\ output.kind = "blob"
          /\ output.entries = StoreOf(counters)
          /\ StreamKeys(output.entries) =
                [i \in 1 .. Len(sorted_counters) |-> sorted_counters[i][1]]

\* C18 witness: a run has written a store of three tokens, two of them
\* from the prior store and "money" from the dataset.
C18_Witness ==
    /\ pc = "written"
    /\ KeysIn(prior) = {"free", "hello"}
    /\ Len(sorted_counters) = 3
    /\ sorted_counters[1][1] = "free"
    /\ sorted_counters[2][1] = "hello"
    /\ sorted_counters[3][1] = "money"
    /\ KeysIn(output) = {"free", "hello", "money"}

\* Whether a count of the token stays within 32 bits in this run.
NoOverflow(t, field, label) ==
    CounterIn(prior, t)[field] + Counted(dataset, 1, t, label) <= U32_MAX

\* C19: in every run, whatever runs preceded it, the output path still
\* holds the prior store until every entry of it is in the accumulator; once
\* the path has been truncated the accumulator holds every key of the prior
\* store, and the store then written holds every key of the prior store
\* with, absent 32-bit overflow of the count, spam and ham counts not below
\* the prior ones.
C19_NoEntryLost ==
    /\ pc \in {"start", "loaded", "reading", "sorted"} => output = prior
    /\ pc \in {"loaded", "reading", "sorted", "created", "written", "done"} =>
          \A t \in KeysIn(prior) :
              /\ t \in DOMAIN counters
              /\ pc = "loaded" => counters[t] = CounterIn(prior, t)
    /\ pc \in {"written", "done"} =>
          \A t \in KeysIn(prior) :
              /\ t \in KeysIn(output)
              /\ NoOverflow(t, "spam", LABEL_SPAM) =>
                    CounterIn(output, t).spam >= CounterIn(prior, t).spam
              /\ NoOverflow(t, "ham", LABEL_HAM) =>
                    CounterIn(output, t).ham >= CounterIn(prior, t).ham

\* C19 witness: a second successful run on the same path has kept "hello",
\* which its dataset does not hold, with its counts, and has raised the spam
\* count of "free".
C19_Witness ==
    /\ pc = "done"
    /\ runs = 2
    /\ "hello" \in KeysIn(prior)
    /\ "hello" \notin DatasetTokens(dataset)
    /\ CounterIn(output, "hello") = CounterIn(prior, "hello")
    /\ CounterIn(prior, "hello").ham > 0
    /\ CounterIn(output, "free").spam > CounterIn(prior, "free").spam
    /\ CounterIn(prior, "free").spam > 0

\* C21: for every Token Store, the statistics from_model computes with its
\* 32-bit totals satisfy total_spam <= total_tokens and total_ham <=
\* total_tokens, and prior_spam and prior_ham both lie in [0,1] and sum to 1.
C21_PriorsInUnitInterval ==
    clf = "ready" =>
        /\ stats.total_spam <= stats.total_tokens
        /\ stats.total_ham <= stats.total_tokens
        /\ InUnitInterval(prior_spam(stats))
        /\ InUnitInterval(prior_ham(stats))
        /\ FAdd(prior_spam(stats), prior_ham(stats)) = One

\* The part of C21 the code keeps: the same for the stores whose totals
\* fit in 32 bits.
C21_PriorsWithinRange ==
    (clf = "ready" /\ ~StatsFromModelOverflows(model)) =>
        /\ stats.total_spam <= stats.total_tokens
        /\ stats.total_ham <= stats.total_tokens
        /\ InUnitInterval(prior_spam(stats))
        /\ InUnitInterval(prior_ham(stats))
        /\ FAdd(prior_spam(stats), prior_ham(stats)) = One


=============================================================================
